---- MODULE Spec2Model ----
(***************************************************************************)
(* Model of proj1.py: the SAT / census demographic pipeline.              *)
(*                                                                         *)
(* A Python dict is an insertion-ordered sequence of <<key, value>> pairs  *)
(* with distinct keys.  A region table is a dict from region to record, a  *)
(* record is a dict from category to number.  Tables are objects: `heap`   *)
(* maps an object name to the table it holds, and local variables hold     *)
(* object names, so that `pcts = data` and `pct_dif = sat_dict` alias.     *)
(*                                                                         *)
(* Numbers are fixed point with five decimals: the integer n stands for    *)
(* n / One.  Arithmetic is exact (the float error of the interpreter is    *)
(* not modelled); round(x, nd) rounds half to even as Python 3 does.       *)
(***************************************************************************)
EXTENDS Integers, Sequences, FiniteSets, TLC

VARIABLES
    pc,     \* control position: the call about to run, "returned"/"raised", or main's stage
    heap,   \* dict objects: object name -> the table (or result) it holds
    env,    \* parameters and local variables: name -> object name or value
    ret,    \* the object returned by the last call, or None
    exc,    \* the exception the last call raised, or NoExc
    fs,     \* files: name -> [exists, rows]
    pre     \* heap (for main: fs) as it was on entry, for stating postconditions

vars == <<pc, heap, env, ret, exc, fs, pre>>

\* ------------------------------------------------------------------ bounds
MaxRegions == 2
MaxRows == 3
MainRows == 2

\* --------------------------------------------------------------- constants
One == 10^5
TotalKey == "Region Totals"
DropKey == "NO RESPONSE"
RegionKey == "Region"
None == "None"
NoExc == "none"

\* ------------------------------------------------------------ Python dicts
Keys(d) == [i \in 1..Len(d) |-> d[i][1]]

Has(d, k) == \E i \in 1..Len(d) : d[i][1] = k

Idx(d, k) == CHOOSE i \in 1..Len(d) : d[i][1] = k

Get(d, k) == d[Idx(d, k)][2]

Put(d, k, v) ==
    IF Has(d, k) THEN [d EXCEPT ![Idx(d, k)] = <<k, v>>]
    ELSE Append(d, <<k, v>>)

Del(d, k) == SelectSeq(d, LAMBDA e : e[1] # k)

Values(d) == [i \in 1..Len(d) |-> d[i][2]]

KeySet(d) == {d[i][1] : i \in 1..Len(d)}

\* ----------------------------------------------------------------- numbers
Abs(x) == IF x < 0 THEN -x ELSE x

\* int(x): truncation toward zero
int(x) == IF x >= 0 THEN (x \div One) * One ELSE -(((-x) \div One) * One)

\* the integer nearest to num / den (den > 0, num >= 0), ties to even
RoundQPos(num, den) ==
    LET q == num \div den
        r == num % den
    IN  IF 2 * r < den THEN q
        ELSE IF 2 * r > den THEN q + 1
        ELSE IF q % 2 = 0 THEN q ELSE q + 1

RoundQ(num, den) ==
    LET n == IF den < 0 THEN -num ELSE num
        d == Abs(den)
    IN  IF n >= 0 THEN RoundQPos(n, d) ELSE -RoundQPos(-n, d)

\* round(num / den, nd) as a fixed-point number
Round(num, den, nd) == RoundQ(num * 10^nd, den) * (One \div 10^nd)

\* round(x, nd) of a fixed-point number
RoundFix(x, nd) == RoundQ(x, One \div 10^nd) * (One \div 10^nd)

\* a slip: a division that yields 0 for a zero divisor instead of raising
TrueDivQuiet(a, b) ==
    IF b = 0 THEN [exc |-> NoExc, num |-> 0, den |-> 1]
    ELSE [exc |-> NoExc, num |-> a, den |-> b]

\* a / b on numbers: the exact quotient, or ZeroDivisionError
TrueDiv(a, b) ==
    IF b = 0 THEN [exc |-> "ZeroDivisionError", num |-> 0, den |-> 1]
    ELSE [exc |-> NoExc, num |-> a, den |-> b]

\* ---------------------------------------------------------------- load_csv
\* A file is [exists, rows]; a row is a sequence of cells.  The cells of the
\* header row are column names, every other cell is a sequence of characters.
IsDigit(c) == c \in {"0", "1", "2", "3", "4", "5", "6", "7", "8", "9"}

DigitOf(c) ==
    CASE c = "0" -> 0 [] c = "1" -> 1 [] c = "2" -> 2 [] c = "3" -> 3
      [] c = "4" -> 4 [] c = "5" -> 5 [] c = "6" -> 6 [] c = "7" -> 7
      [] c = "8" -> 8 [] c = "9" -> 9

RECURSIVE DigitsVal(_, _, _)
DigitsVal(cs, i, acc) ==
    IF i > Len(cs) THEN acc ELSE DigitsVal(cs, i + 1, 10 * acc + DigitOf(cs[i]))

\* int(text): an optional sign and decimal digits, or ValueError
ParseInt(cs) ==
    LET signed == Len(cs) > 0 /\ cs[1] \in {"-", "+"}
        ds == IF signed THEN Tail(cs) ELSE cs
    IN  IF Len(ds) = 0 \/ \E i \in 1..Len(ds) : ~IsDigit(ds[i])
        THEN [exc |-> "ValueError", val |-> 0]
        ELSE [exc |-> NoExc,
              val |-> (IF signed /\ cs[1] = "-" THEN -1 ELSE 1) * DigitsVal(ds, 1, 0) * One]

\* lines 30, 35-36: csv.DictReader, one dict per data row (rows as long as
\* the header, column names distinct)
DictReader(rows) ==
    IF Len(rows) = 0 THEN <<>>
    ELSE [i \in 1..(Len(rows) - 1) |->
            [j \in 1..Len(rows[1]) |-> <<rows[1][j], rows[i + 1][j]>>]]

\* lines 37-38: data[dic["Region"]] = 0 for the rows d_list[i..]
RECURSIVE RegionLoop(_, _, _)
RegionLoop(data, d_list, i) ==
    IF i > Len(d_list) THEN [exc |-> NoExc, data |-> data]
    ELSE IF ~Has(d_list[i], RegionKey) THEN [exc |-> "KeyError", data |-> data]
    ELSE RegionLoop(Put(data, Get(d_list[i], RegionKey), 0), d_list, i + 1)

\* lines 39-40: del dic["Region"]
DelRegion(d_list) == [i \in 1..Len(d_list) |-> Del(d_list[i], RegionKey)]

\* a slip: the keys are paired with the rows from the last row backwards
PairRowsReversed(data, d_list) ==
    [i \in 1..Len(data) |-> <<data[i][1], d_list[Len(d_list) + 1 - i]>>]

\* lines 41-44: the i-th key of data gets the i-th row
PairRows(data, d_list) == [i \in 1..Len(data) |-> <<data[i][1], d_list[i]>>]

\* lines 46-47 for the fields ks[i..] of one record
RECURSIVE IntFields(_, _, _)
IntFields(rec, ks, i) ==
    IF i > Len(ks) THEN [exc |-> NoExc, rec |-> rec]
    ELSE LET n == ParseInt(Get(rec, ks[i]))
         IN  IF n.exc # NoExc THEN [exc |-> n.exc, rec |-> rec]
             ELSE IntFields(Put(rec, ks[i], n.val), ks, i + 1)

\* lines 45-47: the loop over the regions rs[i..]
RECURSIVE IntLoop(_, _, _)
IntLoop(data, rs, i) ==
    IF i > Len(rs) THEN [exc |-> NoExc, data |-> data]
    ELSE LET r == IntFields(Get(data, rs[i]), Keys(Get(data, rs[i])), 1)
         IN  IF r.exc # NoExc THEN [exc |-> r.exc, data |-> data]
             ELSE IntLoop(Put(data, rs[i], r.rec), rs, i + 1)

\* load_csv(filename) on the files f: the table read, or the exception
load_csv(f, filename) ==
    IF ~f[filename].exists THEN [exc |-> "FileNotFoundError", data |-> <<>>]
    ELSE LET d_list == DictReader(f[filename].rows)
             keyed == RegionLoop(<<>>, d_list, 1)
         IN  IF keyed.exc # NoExc THEN keyed
             ELSE LET data == PairRows(keyed.data, DelRegion(d_list))
                  IN  IntLoop(data, Keys(data), 1)

\* ---------------------------------------------------------------- calc_pct
\* line 75 for the fields ks[i..] of one region, total read at line 73
RECURSIVE PctFields(_, _, _, _)
PctFields(rec, ks, i, total) ==
    IF i > Len(ks) THEN [exc |-> NoExc, rec |-> rec]
    ELSE LET q == TrueDiv(int(Get(rec, ks[i])) \div One, total \div One)
         IN  IF q.exc # NoExc THEN [exc |-> q.exc, rec |-> rec]
             ELSE PctFields(Put(rec, ks[i], Round(q.num * 100, q.den, 2)),
                            ks, i + 1, total)

\* a slip: the total is read again from the record at every field, after
\* line 75 may have overwritten it
RECURSIVE PctFieldsStale(_, _, _)
PctFieldsStale(rec, ks, i) ==
    IF i > Len(ks) THEN [exc |-> NoExc, rec |-> rec]
    ELSE LET q == TrueDiv(int(Get(rec, ks[i])) \div One,
                          int(Get(rec, TotalKey)) \div One)
         IN  IF q.exc # NoExc THEN [exc |-> q.exc, rec |-> rec]
             ELSE PctFieldsStale(Put(rec, ks[i], Round(q.num * 100, q.den, 2)),
                                 ks, i + 1)

PctRegionStale(rec) ==
    IF ~Has(rec, TotalKey) THEN [exc |-> "KeyError", rec |-> rec]
    ELSE PctFieldsStale(rec, Keys(rec), 1)

\* lines 73-75 for one region
PctRegion(rec) ==
    IF ~Has(rec, TotalKey) THEN [exc |-> "KeyError", rec |-> rec]
    ELSE PctFields(rec, Keys(rec), 1, int(Get(rec, TotalKey)))

\* lines 72-75: the loop over the regions rs[i..]
RECURSIVE PctRegions(_, _, _)
PctRegions(tbl, rs, i) ==
    IF i > Len(rs) THEN [exc |-> NoExc, tbl |-> tbl]
    ELSE LET r == PctRegion(Get(tbl, rs[i]))
             t == Put(tbl, rs[i], r.rec)
         IN  IF r.exc # NoExc THEN [exc |-> r.exc, tbl |-> t]
             ELSE PctRegions(t, rs, i + 1)

\* calc_pct(data) on heap h: pcts is the object data itself
calc_pct(h, data) ==
    LET r == PctRegions(h[data], Keys(h[data]), 1)
    IN  [exc |-> r.exc,
         heap |-> [h EXCEPT ![data] = r.tbl],
         ret |-> IF r.exc = NoExc THEN data ELSE None]

\* --------------------------------------------------------------- calc_diff
\* a slip: the result table is the reference table
DiffTargetCensus(sat_dict, census_dict) == census_dict

\* line 98: pct_dif is the object sat_dict
DiffTarget(sat_dict, census_dict) == sat_dict

\* lines 100-101: del sat_dict[key]["NO RESPONSE"] for the regions rs[i..]
RECURSIVE DropLoop(_, _, _, _)
DropLoop(h, sat_dict, rs, i) ==
    IF i > Len(rs) THEN [exc |-> NoExc, heap |-> h]
    ELSE LET rec == Get(h[sat_dict], rs[i])
         IN  IF ~Has(rec, DropKey) THEN [exc |-> "KeyError", heap |-> h]
             ELSE DropLoop([h EXCEPT ![sat_dict] = Put(@, rs[i], Del(rec, DropKey))],
                           sat_dict, rs, i + 1)

\* a slip: the difference is stored with its sign
DiffValueSigned(observed, reference) == RoundFix(observed - reference, 4)

\* lines 104-106: round(observed - reference, 4), negated when negative
DiffValue(observed, reference) ==
    LET v == RoundFix(observed - reference, 4)
    IN  IF v < 0 THEN v * (-1) ELSE v

\* lines 103-106 for the fields ks[i..] of region key
RECURSIVE DiffFields(_, _, _, _, _, _)
DiffFields(h, sat_dict, census_dict, key, ks, i) ==
    IF i > Len(ks) THEN [exc |-> NoExc, heap |-> h]
    ELSE IF ~Has(h[census_dict], key) THEN [exc |-> "KeyError", heap |-> h]
    ELSE IF ~Has(Get(h[census_dict], key), ks[i]) THEN [exc |-> "KeyError", heap |-> h]
    ELSE LET pct_dif == DiffTarget(sat_dict, census_dict)
             v == DiffValue(Get(Get(h[sat_dict], key), ks[i]),
                            Get(Get(h[census_dict], key), ks[i]))
             h2 == [h EXCEPT ![pct_dif] = Put(@, key, Put(Get(@, key), ks[i], v))]
         IN  DiffFields(h2, sat_dict, census_dict, key, ks, i + 1)

\* lines 102-106: the loop over the regions rs[i..]
RECURSIVE DiffLoop(_, _, _, _, _)
DiffLoop(h, sat_dict, census_dict, rs, i) ==
    IF i > Len(rs) THEN [exc |-> NoExc, heap |-> h]
    ELSE LET r == DiffFields(h, sat_dict, census_dict, rs[i],
                             Keys(Get(h[sat_dict], rs[i])), 1)
         IN  IF r.exc # NoExc THEN r
             ELSE DiffLoop(r.heap, sat_dict, census_dict, rs, i + 1)

\* calc_diff(sat_dict, census_dict) on heap h
calc_diff(h, sat_dict, census_dict) ==
    LET d == DropLoop(h, sat_dict, Keys(h[sat_dict]), 1)
        r == IF d.exc # NoExc THEN d
             ELSE DiffLoop(d.heap, sat_dict, census_dict, Keys(d.heap[sat_dict]), 1)
    IN  [exc |-> r.exc,
         heap |-> r.heap,
         ret |-> IF r.exc = NoExc THEN DiffTarget(sat_dict, census_dict) ELSE None]

\* --------------------------------------------------------------- write_csv
\* d.update(other) for the entries other[i..]
RECURSIVE Update(_, _, _)
Update(d, other, i) ==
    IF i > Len(other) THEN d ELSE Update(Put(d, other[i][1], other[i][2]), other, i + 1)

\* lines 131-132, 144-145: {"Region": first} updated with a region's record
UpDict(first, rec) == Update(<<<<RegionKey, first>>>>, rec, 1)

\* a slip: the cells are written in the order of the record itself
DictToListOwnOrder(up_dict, fieldnames) == Values(up_dict)

\* csv.DictWriter._dict_to_list: the cells in header order, "" for a column
\* the dict lacks
DictToList(up_dict, fieldnames) ==
    [j \in 1..Len(fieldnames) |->
        IF Has(up_dict, fieldnames[j]) THEN Get(up_dict, fieldnames[j]) ELSE ""]

\* lines 143-146: one writerow per region rs[i..]; a dict with a key that is
\* no header column raises ValueError (extrasaction "raise")
RECURSIVE RowLoop(_, _, _, _, _)
RowLoop(tbl, fieldnames, rows, rs, i) ==
    IF i > Len(rs) THEN [exc |-> NoExc, rows |-> rows]
    ELSE LET up_dict == UpDict(rs[i], Get(tbl, rs[i]))
         IN  IF \E k \in KeySet(up_dict) : \A j \in 1..Len(fieldnames) : fieldnames[j] # k
             THEN [exc |-> "ValueError", rows |-> rows]
             ELSE RowLoop(tbl, fieldnames, Append(rows, DictToList(up_dict, fieldnames)),
                          rs, i + 1)

\* write_csv(data, file_name) on heap h and files f: the files afterwards.
\* open(file_name, "w") truncates the file before anything is written; with
\* an empty table up_dict is unbound at line 138; what was written before an
\* exception stays in the file.
write_csv(h, f, data, file_name) ==
    LET tbl == h[data]
        opened == [exists |-> TRUE, rows |-> <<>>]
    IN  IF Len(tbl) = 0
        THEN [exc |-> "UnboundLocalError", fs |-> [f EXCEPT ![file_name] = opened]]
        ELSE LET fieldnames == Keys(UpDict(0, tbl[1][2]))
                 r == RowLoop(tbl, fieldnames, <<fieldnames>>, Keys(tbl), 1)
             IN  [exc |-> r.exc,
                  fs |-> [f EXCEPT ![file_name] = [exists |-> TRUE, rows |-> r.rows]]]

\* ----------------------------------------------------------------- min_max
\* d.setdefault(k, v)
SetDefault(d, k, v) == IF Has(d, k) THEN d ELSE Append(d, <<k, v>>)

\* lines 173-174 for the regions rs[i..] and one demo
RECURSIVE MutateRegions(_, _, _, _, _)
MutateRegions(inner, data, demo, rs, i) ==
    IF i > Len(rs) THEN [exc |-> NoExc, val |-> inner]
    ELSE IF ~Has(Get(data, rs[i]), demo) THEN [exc |-> "KeyError", val |-> inner]
    ELSE MutateRegions(SetDefault(inner, rs[i], Get(Get(data, rs[i]), demo)),
                       data, demo, rs, i + 1)

\* lines 171-174 for the columns col_list[i..]
RECURSIVE MutateLoop(_, _, _, _)
MutateLoop(demo_vals, data, col_list, i) ==
    IF i > Len(col_list) THEN [exc |-> NoExc, val |-> demo_vals]
    ELSE LET dv == SetDefault(demo_vals, col_list[i], <<>>)
             r == MutateRegions(Get(dv, col_list[i]), data, col_list[i], Keys(data), 1)
         IN  IF r.exc # NoExc THEN [exc |-> r.exc, val |-> dv]
             ELSE MutateLoop(Put(dv, col_list[i], r.val), data, col_list, i + 1)

\* min_max_mutate(data, col_list)
min_max_mutate(data, col_list) == MutateLoop(<<>>, data, col_list, 1)

\* a slip: among equal values the last region wins
RECURSIVE ArgMaxLast(_, _, _)
ArgMaxLast(d, i, best) ==
    IF i > Len(d) THEN best
    ELSE ArgMaxLast(d, i + 1, IF d[i][2] >= d[best][2] THEN i ELSE best)

\* max(d, key=d.get): the index of the first entry with the largest value
RECURSIVE ArgMax(_, _, _)
ArgMax(d, i, best) ==
    IF i > Len(d) THEN best
    ELSE ArgMax(d, i + 1, IF d[i][2] > d[best][2] THEN i ELSE best)

\* min(d, key=d.get): the index of the first entry with the smallest value
RECURSIVE ArgMin(_, _, _)
ArgMin(d, i, best) ==
    IF i > Len(d) THEN best
    ELSE ArgMin(d, i + 1, IF d[i][2] < d[best][2] THEN i ELSE best)

\* max(d.values()), min(d.values())
MaxValue(d) == CHOOSE v \in {d[i][2] : i \in 1..Len(d)} : \A i \in 1..Len(d) : d[i][2] <= v

MinValue(d) == CHOOSE v \in {d[i][2] : i \in 1..Len(d)} : \A i \in 1..Len(d) : d[i][2] >= v

\* lines 196-207 for the categories ks[i..]; max() of an empty dict raises
RECURSIVE MinMaxLoop(_, _, _, _)
MinMaxLoop(result, data, ks, i) ==
    IF i > Len(ks) THEN [exc |-> NoExc, val |-> result]
    ELSE LET d == Get(data, ks[i])
         IN  IF Len(d) = 0 THEN [exc |-> "ValueError", val |-> result]
             ELSE LET max_region == d[ArgMax(d, 1, 1)][1]
                      min_region == d[ArgMin(d, 1, 1)][1]
                      max_data == <<<<max_region, MaxValue(d)>>>>
                      min_data == <<<<min_region, MinValue(d)>>>>
                  IN  MinMaxLoop([min |-> Put(result.min, ks[i], min_data),
                                  max |-> Put(result.max, ks[i], max_data)],
                                 data, ks, i + 1)

\* min_max(data)
min_max(data) == MinMaxLoop([min |-> <<>>, max |-> <<>>], data, Keys(data), 1)

\* ------------------------------------------------------------------ inputs
Regions == {"midwest", "south", "west"}

RegionSeqs ==
    {s \in UNION {[1..n -> Regions] : n \in 0..MaxRegions} :
        \A i, j \in 1..Len(s) : s[i] = s[j] => i = j}

RecsOver(keySeqs, Vals) ==
    UNION {{[i \in 1..Len(ks) |-> <<ks[i], f[i]>>] : f \in [1..Len(ks) -> Vals]} :
           ks \in keySeqs}

\* the table whose i-th region is rs[i], holding the record f[i]
MkTable(rs, f) == [i \in 1..Len(rs) |-> <<rs[i], f[i]>>]

NoFiles == [f \in {} |-> <<>>]

\* ------------------------------------------------- specification: calc_pct
PctCounts == {0, 3 * One, 32 * One}

\* the records of one table share a key set (all rows of one file), in any order
PctKeyGroups == {{<<"ASIAN", TotalKey>>, <<TotalKey, "ASIAN">>}, {<<"ASIAN">>}}

InitPct ==
    /\ pc = "calc_pct"
    /\ \E rs \in RegionSeqs : \E G \in PctKeyGroups :
          \E f \in [1..Len(rs) -> RecsOver(G, PctCounts)] :
             heap = [o \in {"a"} |-> MkTable(rs, f)]
    /\ env = [data |-> "a"]
    /\ ret = None
    /\ exc = NoExc
    /\ fs = NoFiles
    /\ pre = heap

CallCalcPct ==
    /\ pc = "calc_pct"
    /\ LET r == calc_pct(heap, env.data)
       IN  /\ heap' = r.heap
           /\ ret' = r.ret
           /\ exc' = r.exc
           /\ pc' = IF r.exc = NoExc THEN "returned" ELSE "raised"
    /\ UNCHANGED <<env, fs, pre>>

NextPct == CallCalcPct

SpecPct == InitPct /\ [][NextPct]_vars

\* round(100 * value / total, 2) of two integer counts
PctOf(value, total) == Round(100 * (value \div One), total \div One, 2)

\* C1: when calc_pct returns, every field of every region (the total field
\* included, wherever it sits in the record) holds
\* round(100 * original value / original total, 2), the total being the
\* region's "Region Totals" before the call; the total field holds 100.00.
C1_PctOfOriginalTotal ==
    pc = "returned" =>
        \A i \in 1..Len(pre.a) :
            LET r == pre.a[i][1]
                old == pre.a[i][2]
                new == Get(heap.a, r)
            IN  /\ Keys(heap.a) = Keys(pre.a)
                /\ Keys(new) = Keys(old)
                /\ Get(old, TotalKey) # 0
                /\ \A k \in KeySet(old) :
                      Get(new, k) = PctOf(Get(old, k), Get(old, TotalKey))
                /\ Get(new, TotalKey) = 100 * One

\* calc_pct returned for a region whose total field comes first in the record
\* and whose other field is neither 0 nor equal to the total
C1_Witness ==
    /\ pc = "returned"
    /\ \E i \in 1..Len(pre.a) :
          LET old == pre.a[i][2]
          IN  /\ Keys(old)[1] = TotalKey
              /\ Get(old, "ASIAN") \notin {0, Get(old, TotalKey)}
              /\ Get(Get(heap.a, pre.a[i][1]), "ASIAN")
                    = PctOf(Get(old, "ASIAN"), Get(old, TotalKey))

HasZeroTotal(tbl) ==
    \E i \in 1..Len(tbl) : Has(tbl[i][2], TotalKey) /\ Get(tbl[i][2], TotalKey) = 0

\* C9: if some region's "Region Totals" is zero, calc_pct ends in
\* ZeroDivisionError: it returns no table, and every field holds either its
\* original count or the percentage of a non-zero total (never the result of
\* a division by zero).
C9_ZeroTotalRaises ==
    (pc # "calc_pct" /\ HasZeroTotal(pre.a)) =>
        /\ pc = "raised"
        /\ exc = "ZeroDivisionError"
        /\ ret = None
        /\ \A i \in 1..Len(pre.a) :
              LET old == pre.a[i][2]
                  new == Get(heap.a, pre.a[i][1])
              IN  \A k \in KeySet(old) :
                     \/ Get(new, k) = Get(old, k)
                     \/ /\ Get(old, TotalKey) # 0
                        /\ Get(new, k) = PctOf(Get(old, k), Get(old, TotalKey))

\* the division error came after an earlier region had been converted
C9_Witness ==
    /\ pc = "raised"
    /\ exc = "ZeroDivisionError"
    /\ HasZeroTotal(pre.a)
    /\ heap # pre

\* ------------------------------------------------ specification: calc_diff
\* percentages with up to five decimals: 5.87, 0.00016, 2.76, 0.0001, 1.5
SatVals == {0, 587 * (One \div 100), 16}

DropVal == 15 * (One \div 10)

SatRecs ==
    UNION {{<<<<"ASIAN", v>>, <<DropKey, DropVal>>>>,
            <<<<DropKey, DropVal>>, <<"ASIAN", v>>>>,
            <<<<"ASIAN", v>>>>} : v \in SatVals}

CensusRecs == {<<<<"ASIAN", 276 * (One \div 100)>>>>, <<<<"ASIAN", 10>>>>, <<>>}

\* the reference table holds the observed regions, or all but the first
CensusRegionSeqs(rs) == {rs} \cup (IF rs = <<>> THEN {} ELSE {Tail(rs)})

InitDiff ==
    /\ pc = "calc_diff"
    /\ \E rs \in RegionSeqs : \E f \in [1..Len(rs) -> SatRecs] :
          \E cs \in CensusRegionSeqs(rs) : \E g \in [1..Len(cs) -> CensusRecs] :
             heap = [sat |-> MkTable(rs, f), census |-> MkTable(cs, g)]
    /\ env = [sat_dict |-> "sat", census_dict |-> "census"]
    /\ ret = None
    /\ exc = NoExc
    /\ fs = NoFiles
    /\ pre = heap

CallCalcDiff ==
    /\ pc = "calc_diff"
    /\ LET r == calc_diff(heap, env.sat_dict, env.census_dict)
       IN  /\ heap' = r.heap
           /\ ret' = r.ret
           /\ exc' = r.exc
           /\ pc' = IF r.exc = NoExc THEN "returned" ELSE "raised"
    /\ UNCHANGED <<env, fs, pre>>

NextDiff == CallCalcDiff

SpecDiff == InitDiff /\ [][NextDiff]_vars

\* every region of the observed table, and every field of it other than
\* "NO RESPONSE", exists in the reference table
Covered(observed, reference) ==
    \A i \in 1..Len(observed) :
        /\ Has(reference, observed[i][1])
        /\ \A k \in KeySet(observed[i][2]) \ {DropKey} :
              Has(Get(reference, observed[i][1]), k)

EveryRegionHasDropKey(observed) ==
    \A i \in 1..Len(observed) : Has(observed[i][2], DropKey)

\* the table tbl holds, for every region and every field but "NO RESPONSE" of
\* observed, abs(round(observed - reference, 4)), and no "NO RESPONSE"
HoldsDifferences(tbl, observed, reference) ==
    /\ Keys(tbl) = Keys(observed)
    /\ \A i \in 1..Len(observed) :
          LET r == observed[i][1]
              new == Get(tbl, r)
          IN  /\ KeySet(new) = KeySet(observed[i][2]) \ {DropKey}
              /\ \A k \in KeySet(new) :
                    /\ Get(new, k) = Abs(RoundFix(Get(observed[i][2], k)
                                                   - Get(Get(reference, r), k), 4))
                    /\ Get(new, k) >= 0

C7_DropOnlyIfPresent ==
    (pc # "calc_diff" /\ Covered(pre.sat, pre.census)) =>
        /\ pc = "returned"
        /\ HoldsDifferences(heap[ret], pre.sat, pre.census)

\* C10: calc_diff leaves the reference table as it was, whether it returns or
\* raises; what it returns is the observed table object, which then holds the
\* differences and no "NO RESPONSE".
C10_WritesObservedOnly ==
    (pc # "calc_diff" /\ env.sat_dict # env.census_dict) =>
        /\ heap[env.census_dict] = pre[env.census_dict]
        /\ pc = "returned" =>
              /\ ret = env.sat_dict
              /\ HoldsDifferences(heap[env.sat_dict], pre.sat, pre.census)
              /\ \A i \in 1..Len(heap[env.sat_dict]) :
                    ~Has(heap[env.sat_dict][i][2], DropKey)

\* calc_diff returned after overwriting the observed table
C10_Witness ==
    /\ pc = "returned"
    /\ ret = env.sat_dict
    /\ heap[env.sat_dict] # pre[env.sat_dict]
    /\ \E i \in 1..Len(pre.sat) :
          Get(Get(heap.sat, pre.sat[i][1]), "ASIAN") # Get(pre.sat[i][2], "ASIAN")
    /\ heap[env.census_dict] = pre[env.census_dict]

\* ------------------------------------------------- specification: load_csv
Cells == {<<"7">>, <<"1", "2">>, <<"x">>}

RegionCells == {<<"M", "W">>, <<"S">>}

LoadHeaders == {<<RegionKey, "ASIAN", TotalKey>>, <<"ASIAN", RegionKey>>, <<"ASIAN">>}

\* the rows a file with header hd can hold
RowsOf(hd, RCells, NCells) ==
    {row \in [1..Len(hd) -> RCells \cup NCells] :
        \A j \in 1..Len(hd) :
            IF hd[j] = RegionKey THEN row[j] \in RCells ELSE row[j] \in NCells}

File(hd, rows) == [exists |-> TRUE, rows |-> <<hd>> \o rows]

NoFile == [exists |-> FALSE, rows |-> <<>>]

EmptyFile == [exists |-> TRUE, rows |-> <<>>]

NoHeap == [o \in {} |-> <<>>]

InitLoad ==
    /\ pc = "load_csv"
    /\ \/ \E hd \in LoadHeaders : \E n \in 0..MaxRows :
             \E rows \in [1..n -> RowsOf(hd, RegionCells, Cells)] :
                fs = [f \in {"in.csv"} |-> File(hd, rows)]
       \/ fs = [f \in {"in.csv"} |-> NoFile]
       \/ fs = [f \in {"in.csv"} |-> EmptyFile]
    /\ heap = NoHeap
    /\ env = [filename |-> "in.csv"]
    /\ ret = None
    /\ exc = NoExc
    /\ pre = NoHeap

CallLoadCsv ==
    /\ pc = "load_csv"
    /\ LET r == load_csv(fs, env.filename)
       IN  /\ exc' = r.exc
           /\ IF r.exc = NoExc
              THEN heap' = [o \in {"data"} |-> r.data] /\ ret' = "data" /\ pc' = "returned"
              ELSE heap' = heap /\ ret' = None /\ pc' = "raised"
    /\ UNCHANGED <<env, fs, pre>>

NextLoad == CallLoadCsv

SpecLoad == InitLoad /\ [][NextLoad]_vars

\* the header and the data rows of the file read
HeaderOf(file) == file.rows[1]

DataRows(file) == Tail(file.rows)

RegionCol(hd) == CHOOSE j \in 1..Len(hd) : hd[j] = RegionKey

HasRegionCol(file) ==
    file.exists /\ Len(file.rows) > 0 /\ \E j \in 1..Len(HeaderOf(file)) : HeaderOf(file)[j] = RegionKey

DistinctRegions(file) ==
    LET c == RegionCol(HeaderOf(file))
        rows == DataRows(file)
    IN  \A i, j \in 1..Len(rows) : rows[i][c] = rows[j][c] => i = j

IntegerCounts(file) ==
    \A i \in 1..Len(DataRows(file)) : \A j \in 1..Len(HeaderOf(file)) :
        HeaderOf(file)[j] # RegionKey => ParseInt(DataRows(file)[i][j]).exc = NoExc

\* the record of table tbl for the region of row is built from that row
BuiltFromRow(tbl, hd, row) ==
    LET rec == Get(tbl, row[RegionCol(hd)])
    IN  /\ Keys(rec) = SelectSeq(hd, LAMBDA k : k # RegionKey)
        /\ \A j \in 1..Len(hd) :
              hd[j] # RegionKey => Get(rec, hd[j]) = ParseInt(row[j]).val

\* C3: for a file whose data rows have distinct regions and integer counts,
\* load_csv returns a table with exactly one entry per data row, each region
\* mapped to the record built from its own row: every column but "Region",
\* coerced to an integer.
C3_OneRecordPerRow ==
    LET file == fs["in.csv"]
    IN  (pc # "load_csv" /\ HasRegionCol(file) /\ DistinctRegions(file)
            /\ IntegerCounts(file)) =>
            /\ pc = "returned"
            /\ Len(heap[ret]) = Len(DataRows(file))
            /\ \A i \in 1..Len(DataRows(file)) :
                  /\ Has(heap[ret], DataRows(file)[i][RegionCol(HeaderOf(file))])
                  /\ BuiltFromRow(heap[ret], HeaderOf(file), DataRows(file)[i])

\* load_csv returned a table for two rows that differ in region and counts
C3_Witness ==
    LET file == fs["in.csv"]
    IN  /\ pc = "returned"
        /\ HasRegionCol(file) /\ DistinctRegions(file) /\ IntegerCounts(file)
        /\ Len(DataRows(file)) >= 2
        /\ Len(heap[ret]) = Len(DataRows(file))
        /\ Get(heap[ret], DataRows(file)[1][RegionCol(HeaderOf(file))])
              # Get(heap[ret], DataRows(file)[2][RegionCol(HeaderOf(file))])
        /\ BuiltFromRow(heap[ret], HeaderOf(file), DataRows(file)[2])

\* C6: a region name that appears in two data rows makes load_csv fail.
C6_DuplicateRegionFails ==
    LET file == fs["in.csv"]
    IN  (pc # "load_csv" /\ HasRegionCol(file) /\ ~DistinctRegions(file)) =>
            pc = "raised"

\* ------------------------------------------------ specification: write_csv
DiffVals == {0, 311 * (One \div 100)}

WriteKeySeqs == {<<"ASIAN", "BLACK">>, <<"BLACK", "ASIAN">>, <<"ASIAN">>}

\* the destination before the call: absent, or holding an earlier table
OldFile == [exists |-> TRUE, rows |-> <<<<RegionKey, "OLD">>, <<"old", 0>>>>]

InitWrite ==
    /\ pc = "write_csv"
    /\ \E rs \in RegionSeqs : \E f \in [1..Len(rs) -> RecsOver(WriteKeySeqs, DiffVals)] :
          heap = [o \in {"a"} |-> MkTable(rs, f)]
    /\ \E old \in {NoFile, OldFile} : fs = [f \in {"out.csv"} |-> old]
    /\ env = [data |-> "a", file_name |-> "out.csv"]
    /\ ret = None
    /\ exc = NoExc
    /\ pre = heap

CallWriteCsv ==
    /\ pc = "write_csv"
    /\ LET r == write_csv(heap, fs, env.data, env.file_name)
       IN  /\ fs' = r.fs
           /\ exc' = r.exc
           /\ pc' = IF r.exc = NoExc THEN "returned" ELSE "raised"
    /\ UNCHANGED <<heap, env, ret, pre>>

NextWrite == CallWriteCsv

SpecWrite == InitWrite /\ [][NextWrite]_vars

SameKeySets(tbl) == \A i, j \in 1..Len(tbl) : KeySet(tbl[i][2]) = KeySet(tbl[j][2])

\* C5: for a non-empty table whose records share one key set, write_csv
\* writes the header ["Region"] + the first record's keys in its insertion
\* order, then exactly one row per region in table order, whose "Region" cell
\* is the region name and whose other cells are the region's values for the
\* columns' categories.
C5_HeaderAndRows ==
    LET tbl == heap.a
        rows == fs["out.csv"].rows
    IN  (pc # "write_csv" /\ Len(tbl) > 0 /\ SameKeySets(tbl)) =>
            /\ pc = "returned"
            /\ fs["out.csv"].exists
            /\ Len(rows) = 1 + Len(tbl)
            /\ rows[1] = <<RegionKey>> \o Keys(tbl[1][2])
            /\ \A i \in 1..Len(tbl) :
                  /\ Len(rows[i + 1]) = Len(rows[1])
                  /\ rows[i + 1][1] = tbl[i][1]
                  /\ \A j \in 2..Len(rows[1]) :
                        rows[i + 1][j] = Get(tbl[i][2], rows[1][j])

\* write_csv wrote two regions whose records hold the same keys in different
\* orders and different values
C5_Witness ==
    LET tbl == heap.a
        rows == fs["out.csv"].rows
    IN  /\ pc = "returned"
        /\ Len(tbl) = 2 /\ SameKeySets(tbl)
        /\ Keys(tbl[1][2]) # Keys(tbl[2][2])
        /\ Get(tbl[2][2], "ASIAN") # Get(tbl[2][2], "BLACK")
        /\ Len(rows) = 3
        /\ rows[3][1] = tbl[2][1]

\* ------------------------------------------------- specification: min_max
MinMaxKeySeqs == {<<"ASIAN">>, <<"ASIAN", "BLACK">>}

MinMaxVals == {0, 50 * (One \div 100), 326 * (One \div 100)}

ColLists == {<<"ASIAN">>, <<"BLACK", "ASIAN">>}

InitMinMax ==
    /\ pc = "min_max_mutate"
    /\ \E rs \in RegionSeqs : \E G \in MinMaxKeySeqs :
          \E f \in [1..Len(rs) -> RecsOver({G}, MinMaxVals)] :
             heap = [o \in {"a"} |-> MkTable(rs, f)]
    /\ \E cols \in ColLists : env = [data |-> "a", col_list |-> cols]
    /\ ret = None
    /\ exc = NoExc
    /\ fs = NoFiles
    /\ pre = heap

\* the object new bound to value v on heap h
Alloc(h, new, v) == [o \in DOMAIN h \cup {new} |-> IF o = new THEN v ELSE h[o]]

CallMinMaxMutate ==
    /\ pc = "min_max_mutate"
    /\ LET r == min_max_mutate(heap[env.data], env.col_list)
       IN  /\ exc' = r.exc
           /\ IF r.exc = NoExc
              THEN /\ heap' = Alloc(heap, "demo_vals", r.val)
                   /\ ret' = "demo_vals"
                   /\ pc' = "min_max"
              ELSE heap' = heap /\ ret' = None /\ pc' = "raised"
    /\ UNCHANGED <<env, fs, pre>>

CallMinMax ==
    /\ pc = "min_max"
    /\ LET r == min_max(heap.demo_vals)
       IN  /\ exc' = r.exc
           /\ IF r.exc = NoExc
              THEN /\ heap' = Alloc(heap, "min_max", r.val)
                   /\ ret' = "min_max"
                   /\ pc' = "returned"
              ELSE heap' = heap /\ ret' = None /\ pc' = "raised"
    /\ UNCHANGED <<env, fs, pre>>

NextMinMax == CallMinMaxMutate \/ CallMinMax

SpecMinMax == InitMinMax /\ [][NextMinMax]_vars

\* entry is the singleton {region: value}, region holds value in d, and no
\* region before it in d's iteration order holds value
FirstHolder(entry, d, value) ==
    /\ Len(entry) = 1
    /\ entry[1][2] = value
    /\ Has(d, entry[1][1])
    /\ Get(d, entry[1][1]) = value
    /\ \A j \in 1..(Idx(d, entry[1][1]) - 1) : d[j][2] # value

\* C4: for every category of the transposed table, the "max" entry is the
\* singleton {region: value} with value the maximum over the category's
\* regions and region the first in iteration order to hold it; likewise
\* "min" with the minimum.
C4_FirstExtremeRegion ==
    pc = "returned" =>
        LET data == heap.demo_vals
            result == heap.min_max
        IN  /\ Keys(result.max) = Keys(data)
            /\ Keys(result.min) = Keys(data)
            /\ \A c \in KeySet(data) :
                  LET d == Get(data, c)
                      vals == {d[i][2] : i \in 1..Len(d)}
                  IN  /\ \E hi \in vals :
                           /\ \A v \in vals : v <= hi
                           /\ FirstHolder(Get(result.max, c), d, hi)
                      /\ \E lo \in vals :
                           /\ \A v \in vals : v >= lo
                           /\ FirstHolder(Get(result.min, c), d, lo)

\* min_max returned for a category in which two regions tie for the maximum
\* and two for the minimum
C4_Witness ==
    /\ pc = "returned"
    /\ \E c \in KeySet(heap.demo_vals) :
          LET d == Get(heap.demo_vals, c)
          IN  /\ Len(d) >= 2
              /\ d[1][2] = d[2][2]
              /\ Get(heap.min_max.max, c)[1][1] = d[1][1]
              /\ Get(heap.min_max.min, c)[1][1] = d[1][1]

\* ----------------------------------------------------- specification: main
SatName == "sat_data.csv"

CensusName == "census_data.csv"

OutName == "proj1-mueller.csv"

MainCells == {<<"7">>, <<"0">>}

SatHeader == <<RegionKey, "ASIAN", DropKey, TotalKey>>

CensusHeader == <<RegionKey, "ASIAN", TotalKey>>

NoEnv == [v \in {} |-> None]

\* the local variable name bound to ref
Bind(e, name, ref) == [v \in DOMAIN e \cup {name} |-> IF v = name THEN ref ELSE e[v]]

InitMain ==
    /\ pc = "load_sat"
    /\ \E n \in 0..MainRows : \E m \in 0..MainRows :
          \E srows \in [1..n -> RowsOf(SatHeader, RegionCells, MainCells)] :
             \E crows \in [1..m -> RowsOf(CensusHeader, RegionCells, MainCells)] :
                \E old \in {NoFile, OldFile} :
                   fs = [f \in {SatName, CensusName, OutName, "stdout"} |->
                           IF f = SatName THEN File(SatHeader, srows)
                           ELSE IF f = CensusName THEN File(CensusHeader, crows)
                           ELSE IF f = OutName THEN old
                           ELSE EmptyFile]
    /\ heap = NoHeap
    /\ env = NoEnv
    /\ ret = None
    /\ exc = NoExc
    /\ pre = fs

\* an uncaught exception ends the process
Fail(e) ==
    /\ pc' = "failed"
    /\ exc' = e
    /\ ret' = None

\* line 264: sat_data = load_csv("sat_data.csv")
MainLoadSat ==
    /\ pc = "load_sat"
    /\ LET r == load_csv(fs, SatName)
       IN  IF r.exc = NoExc
           THEN /\ heap' = Alloc(heap, "sat", r.data)
                /\ env' = Bind(env, "sat_data", "sat")
                /\ pc' = "load_census"
                /\ UNCHANGED <<ret, exc>>
           ELSE Fail(r.exc) /\ UNCHANGED <<heap, env>>
    /\ UNCHANGED <<fs, pre>>

\* line 265: census_data = load_csv("census_data.csv")
MainLoadCensus ==
    /\ pc = "load_census"
    /\ LET r == load_csv(fs, CensusName)
       IN  IF r.exc = NoExc
           THEN /\ heap' = Alloc(heap, "census", r.data)
                /\ env' = Bind(env, "census_data", "census")
                /\ pc' = "pct_sat"
                /\ UNCHANGED <<ret, exc>>
           ELSE Fail(r.exc) /\ UNCHANGED <<heap, env>>
    /\ UNCHANGED <<fs, pre>>

\* line 268: sat_pct = calc_pct(sat_data)
MainPctSat ==
    /\ pc = "pct_sat"
    /\ LET r == calc_pct(heap, env.sat_data)
       IN  /\ heap' = r.heap
           /\ IF r.exc = NoExc
              THEN /\ env' = Bind(env, "sat_pct", r.ret)
                   /\ pc' = "pct_census"
                   /\ UNCHANGED <<ret, exc>>
              ELSE Fail(r.exc) /\ UNCHANGED env
    /\ UNCHANGED <<fs, pre>>

\* line 269: census_pct = calc_pct(census_data)
MainPctCensus ==
    /\ pc = "pct_census"
    /\ LET r == calc_pct(heap, env.census_data)
       IN  /\ heap' = r.heap
           /\ IF r.exc = NoExc
              THEN /\ env' = Bind(env, "census_pct", r.ret)
                   /\ pc' = "diff"
                   /\ UNCHANGED <<ret, exc>>
              ELSE Fail(r.exc) /\ UNCHANGED env
    /\ UNCHANGED <<fs, pre>>

\* line 272: diff = calc_diff(sat_pct, census_pct)
MainDiff ==
    /\ pc = "diff"
    /\ LET r == calc_diff(heap, env.sat_pct, env.census_pct)
       IN  /\ heap' = r.heap
           /\ IF r.exc = NoExc
              THEN /\ env' = Bind(env, "diff", r.ret)
                   /\ pc' = "write"
                   /\ UNCHANGED <<ret, exc>>
              ELSE Fail(r.exc) /\ UNCHANGED env
    /\ UNCHANGED <<fs, pre>>

\* line 275: write_csv(diff, "proj1-mueller.csv")
MainWrite ==
    /\ pc = "write"
    /\ LET r == write_csv(heap, fs, env.diff, OutName)
       IN  /\ fs' = r.fs
           /\ IF r.exc = NoExc
              THEN pc' = "mutate" /\ UNCHANGED <<ret, exc>>
              ELSE Fail(r.exc)
    /\ UNCHANGED <<heap, env, pre>>

\* lines 278-282: the keys of the first region's record
FirstCols(tbl) == IF Len(tbl) = 0 THEN <<>> ELSE Keys(tbl[1][2])

\* lines 278-285: mutate_data = min_max_mutate(diff, cols)
MainMutate ==
    /\ pc = "mutate"
    /\ LET r == min_max_mutate(heap[env.diff], FirstCols(heap[env.diff]))
       IN  IF r.exc = NoExc
           THEN /\ heap' = Alloc(heap, "demo_vals", r.val)
                /\ env' = Bind(env, "mutate_data", "demo_vals")
                /\ pc' = "min_max"
                /\ UNCHANGED <<ret, exc>>
           ELSE Fail(r.exc) /\ UNCHANGED <<heap, env>>
    /\ UNCHANGED <<fs, pre>>

\* line 288: min_max_data = min_max(mutate_data)
MainMinMax ==
    /\ pc = "min_max"
    /\ LET r == min_max(heap[env.mutate_data])
       IN  IF r.exc = NoExc
           THEN /\ heap' = Alloc(heap, "min_max", r.val)
                /\ env' = Bind(env, "min_max_data", "min_max")
                /\ pc' = "print"
                /\ UNCHANGED <<ret, exc>>
           ELSE Fail(r.exc) /\ UNCHANGED <<heap, env>>
    /\ UNCHANGED <<fs, pre>>

\* line 291: print(min_max_data)
MainPrint ==
    /\ pc = "print"
    /\ fs' = [fs EXCEPT !["stdout"] = [exists |-> TRUE, rows |-> <<heap[env.min_max_data]>>]]
    /\ pc' = "done"
    /\ UNCHANGED <<heap, env, ret, exc, pre>>

NextMain ==
    \/ MainLoadSat
    \/ MainLoadCensus
    \/ MainPctSat
    \/ MainPctCensus
    \/ MainDiff
    \/ MainWrite
    \/ MainMutate
    \/ MainMinMax
    \/ MainPrint

SpecMain == InitMain /\ [][NextMain]_vars

\* C8: after a failed run of main the destination is as it was before the
\* run, or holds the complete table: the header and one row for every region
\* of the difference table.
C8_NoHalfWrittenOutput ==
    pc = "failed" =>
        \/ fs[OutName] = pre[OutName]
        \/ /\ fs[OutName].exists
           /\ Len(fs[OutName].rows) = 1 + Len(heap[env.diff])

====
